---- MODULE Spec2Model ----
(***************************************************************************)
(* Model of the Navigation block edit component                            *)
(* (packages/block-library/src/navigation/edit.js).                        *)
(*                                                                         *)
(* State: the props coming from the block-editor store (innerBlocks,       *)
(* attributes.items), the fetched page list, the two useState cells        *)
(* (pageNavigationItems, populateFromExistingPages), which of the two      *)
(* useEffect callbacks is due (their dependency arrays changed), and the   *)
(* output of the last render (view, createDisabled).                       *)
(*                                                                         *)
(* A block and a page are represented by their `id` attribute; type, url   *)
(* and title are copied verbatim by the code and decide nothing here.      *)
(* Passive effects are flushed before the next event is handled, so user   *)
(* and store events are taken only when no effect is due.                  *)
(***************************************************************************)
EXTENDS Integers, Sequences, FiniteSets, TLC

\* ---- bounds ----
MaxPageId == 1
MaxBlocks == 2

PageIds == 0..MaxPageId

\* `undefined` id of a block created without attributes
NoId == -1

VARIABLES
    pages,                      \* [defined, list]: data of useQueryPages
    innerBlocks,                \* children of the block in the store
    items,                      \* attributes.items
    pageNavigationItems,        \* staged child list (useState)
    populateFromExistingPages,  \* useState flag
    checkerDue,                 \* items-checker effect has changed deps
    updateDue,                  \* update-links effect has changed deps
    view,                       \* what the last render returned
    createDisabled,             \* `disabled` of "Create from all top pages"
    lastStep,                   \* history: name of the last step taken
    lastEvent,                  \* history: last user/store event
    wrote                       \* history: last checker run called setAttributes

vars == << pages, innerBlocks, items, pageNavigationItems,
           populateFromExistingPages, checkerDue, updateDue, view,
           createDisabled, lastStep, lastEvent, wrote >>

\* ---- lodash / JS helpers ----

Elems(s) == { s[i] : i \in 1..Len(s) }

\* difference( a, b ): elements of a not in b, in a's order
RECURSIVE Difference(_, _)
Difference(a, b) ==
    IF a = << >> THEN << >>
    ELSE IF Head(a) \notin Elems(b) THEN << Head(a) >> \o Difference(Tail(a), b)
         ELSE Difference(Tail(a), b)

\* decimal digits of a non-negative number (String( n ))
RECURSIVE DecStr(_)
DecStr(n) == IF n < 10 THEN << n >> ELSE Append(DecStr(n \div 10), n % 10)

\* string comparison a < b by code units
RECURSIVE StrLess(_, _)
StrLess(a, b) ==
    IF b = << >> THEN FALSE
    ELSE IF a = << >> THEN TRUE
    ELSE IF Head(a) # Head(b) THEN Head(a) < Head(b)
    ELSE StrLess(Tail(a), Tail(b))

RECURSIVE InsertSorted(_, _)
InsertSorted(x, s) ==
    IF s = << >> THEN << x >>
    ELSE IF StrLess(DecStr(x), DecStr(Head(s))) THEN << x >> \o s
    ELSE << Head(s) >> \o InsertSorted(x, Tail(s))

\* Array.prototype.sort() without comparator: order of the string forms
RECURSIVE SortJS(_)
SortJS(s) == IF s = << >> THEN << >> ELSE InsertSorted(Head(s), SortJS(Tail(s)))

\* ---- the component's pure parts ----

\* createBlock( 'core/navigation-link' )
EmptyNavLinkBlock == [id |-> NoId]

\* map( pages, ( { id } ) => id ), with map( undefined ) = []
PagesIdList(p) == IF p.defined THEN p.list ELSE << >>

HasPagesDefinedOnly(p) == p.defined

\* pages && pages.length
HasPages(p) == p.defined /\ Len(p.list) # 0

HasExistingNavItemsMoreThanOne(blocks) == Len(blocks) > 1

\* !! innerBlocks.length
HasExistingNavItems(blocks) == Len(blocks) # 0

\* the gate of the two returns of Navigation
View(blocks) == IF ~ HasExistingNavItems(blocks) THEN "placeholder" ELSE "editor"

\* attrs.id && attrs.id >= 0
KeepBlock(b) == (b.id # NoId /\ b.id # 0) /\ b.id >= 0

\* filter( innerBlocks, ( { attributes: attrs } ) => attrs.id && attrs.id >= 0 )
RECURSIVE FilterBlocks(_)
FilterBlocks(blocks) ==
    IF blocks = << >> THEN << >>
    ELSE IF KeepBlock(Head(blocks))
         THEN << Head(blocks) >> \o FilterBlocks(Tail(blocks))
         ELSE FilterBlocks(Tail(blocks))

\* one step of the reduce callback
ReduceStep(acc, id) ==
    LET seen == id \in DOMAIN acc.items IN
    [ items    |-> (id :> (IF seen THEN acc.items[id] + 1 ELSE 1)) @@ acc.items,
      ids      |-> Append(acc.ids, id),
      repeated |-> IF seen THEN Append(acc.repeated, id) ELSE acc.repeated ]

RECURSIVE Reduce(_, _)
Reduce(acc, s) == IF s = << >> THEN acc ELSE Reduce(ReduceStep(acc, Head(s)), Tail(s))

\* the reduce( map( filter( innerBlocks ) ) ) expression
ItemsCheckerBase(blocks) ==
    LET kept == FilterBlocks(blocks) IN
    Reduce([items |-> << >>, ids |-> << >>, repeated |-> << >>],
           [i \in 1..Len(kept) |-> kept[i].id])

\* itemsChecker.unadded
Unadded(p, blocks) == Difference(PagesIdList(p), ItemsCheckerBase(blocks).ids)

\* itemsChecker as passed to setAttributes: unadded has been sorted in place
ItemsCheckerObject(p, blocks) ==
    LET base == ItemsCheckerBase(blocks) IN
    [ items |-> base.items, ids |-> base.ids, repeated |-> base.repeated,
      unadded |-> SortJS(Unadded(p, blocks)) ]

\* mapItemsFromPagesId( ids, pages )
MapItemsFromPagesId(ids, p) == [i \in 1..Len(ids) |-> [id |-> ids[i]]]

UnaddedChangedAlways(new, old) == TRUE

\* ! isEqual( itemsChecker.unadded.sort(), items.unadded.sort() )
UnaddedChanged(new, old) == SortJS(new) # SortJS(old)

ShouldUpdateAlways(populate) == TRUE

\* if ( populateFromExistingPages )
ShouldUpdate(populate) == populate

\* default of attributes.items
ItemsDefault == [items |-> << >>, ids |-> << >>, repeated |-> << >>, unadded |-> << >>]

\* ---- state machine ----

Quiescent == ~ checkerDue /\ ~ updateDue

\* page lists the query can return: ascending, distinct ids
RECURSIVE Ascending(_)
Ascending(S) ==
    IF S = {} THEN << >>
    ELSE LET m == CHOOSE x \in S : \A y \in S : x <= y
         IN << m >> \o Ascending(S \ {m})

PageValues ==
    { [defined |-> FALSE, list |-> << >>] } \cup
    { [defined |-> TRUE, list |-> Ascending(S)] : S \in SUBSET PageIds }

Init ==
    /\ pages = [defined |-> FALSE, list |-> << >>]
    /\ innerBlocks = << >>
    /\ items = ItemsDefault
    /\ pageNavigationItems = << >>
    /\ populateFromExistingPages = FALSE
    /\ checkerDue = TRUE
    /\ updateDue = TRUE
    /\ view = View(<< >>)
    /\ createDisabled = ~ HasPages([defined |-> FALSE, list |-> << >>])
    /\ lastStep = "Mount"
    /\ lastEvent = "Mount"
    /\ wrote = FALSE

\* useQueryPages delivers a new page list
QueryPages(p) ==
    /\ Quiescent
    /\ p # pages
    /\ pages' = p
    /\ checkerDue' = TRUE
    /\ createDisabled' = ~ HasPages(p)
    /\ lastStep' = "QueryPages"
    /\ lastEvent' = "QueryPages"
    /\ UNCHANGED << innerBlocks, items, pageNavigationItems,
                    populateFromExistingPages, updateDue, view, wrote >>

\* the host editor changes the children (InnerBlocks region)
StoreChange(blocks, name) ==
    /\ innerBlocks' = blocks
    /\ checkerDue' = TRUE
    /\ view' = View(blocks)
    /\ lastStep' = name
    /\ lastEvent' = name
    /\ UNCHANGED << pages, items, pageNavigationItems,
                    populateFromExistingPages, updateDue, createDisabled,
                    wrote >>

InsertBlock(id) ==
    /\ Quiescent
    /\ Len(innerBlocks) < MaxBlocks
    /\ StoreChange(Append(innerBlocks, [id |-> id]), "InsertBlock")

RemoveBlock(i) ==
    /\ Quiescent
    /\ i \in 1..Len(innerBlocks)
    /\ StoreChange(SubSeq(innerBlocks, 1, i - 1) \o
                   SubSeq(innerBlocks, i + 1, Len(innerBlocks)), "RemoveBlock")

\* onClick of "Create from all top pages"
CreateFromAllTopPages ==
    /\ Quiescent
    /\ view = "placeholder"
    /\ ~ createDisabled
    /\ populateFromExistingPages' = TRUE
    /\ updateDue' = (updateDue \/ ~ populateFromExistingPages)
    /\ lastStep' = "CreateFromAllTopPages"
    /\ lastEvent' = "CreateFromAllTopPages"
    /\ UNCHANGED << pages, innerBlocks, items, pageNavigationItems,
                    checkerDue, view, createDisabled, wrote >>

handleCreateEmptyAfterStaged ==
    /\ Quiescent
    /\ view = "placeholder"
    /\ Len(pageNavigationItems) < MaxBlocks
    /\ innerBlocks' = Append(pageNavigationItems, EmptyNavLinkBlock)
    /\ checkerDue' = TRUE
    /\ view' = View(Append(pageNavigationItems, EmptyNavLinkBlock))
    /\ lastStep' = "CreateEmpty"
    /\ lastEvent' = "CreateEmpty"
    /\ UNCHANGED << pages, items, pageNavigationItems,
                    populateFromExistingPages, updateDue, createDisabled,
                    wrote >>

\* onClick of "Create empty"
handleCreateEmpty ==
    /\ Quiescent
    /\ view = "placeholder"
    /\ innerBlocks' = << EmptyNavLinkBlock >>
    /\ checkerDue' = TRUE
    /\ view' = View(<< EmptyNavLinkBlock >>)
    /\ lastStep' = "CreateEmpty"
    /\ lastEvent' = "CreateEmpty"
    /\ UNCHANGED << pages, items, pageNavigationItems,
                    populateFromExistingPages, updateDue, createDisabled,
                    wrote >>

\* first useEffect, deps [ pages, innerBlocks ]
ItemsChecker ==
    /\ checkerDue
    /\ LET unadded == Unadded(pages, innerBlocks)
           stage   == Len(unadded) # 0
           write   == UnaddedChanged(unadded, items.unadded)
       IN /\ pageNavigationItems' =
                 IF stage
                 THEN MapItemsFromPagesId(unadded, pages) \o innerBlocks
                 ELSE pageNavigationItems
          /\ updateDue' = (updateDue \/ stage)
          /\ items' = IF write THEN ItemsCheckerObject(pages, innerBlocks)
                      ELSE [items EXCEPT !.unadded = SortJS(items.unadded)]
          /\ wrote' = write
    /\ checkerDue' = FALSE
    /\ lastStep' = "ItemsChecker"
    /\ UNCHANGED << pages, innerBlocks, populateFromExistingPages, view,
                    createDisabled, lastEvent >>

\* second useEffect, deps [ populateFromExistingPages, pageNavigationItems ];
\* it is declared after the items checker and runs after it
UpdateNavigationLinks ==
    /\ updateDue
    /\ ~ checkerDue
    /\ IF ShouldUpdate(populateFromExistingPages)
       THEN /\ Len(pageNavigationItems) <= MaxBlocks
            /\ innerBlocks' = pageNavigationItems
            /\ checkerDue' = TRUE
            /\ view' = View(pageNavigationItems)
            /\ lastStep' = "Commit"
       ELSE /\ lastStep' = "NoCommit"
            /\ UNCHANGED << innerBlocks, checkerDue, view >>
    /\ updateDue' = FALSE
    /\ UNCHANGED << pages, items, pageNavigationItems,
                    populateFromExistingPages, createDisabled, lastEvent,
                    wrote >>

Next ==
    \/ \E p \in PageValues : QueryPages(p)
    \/ \E id \in PageIds \cup {NoId} : InsertBlock(id)
    \/ \E i \in 1..MaxBlocks : RemoveBlock(i)
    \/ CreateFromAllTopPages
    \/ handleCreateEmpty
    \/ ItemsChecker
    \/ UpdateNavigationLinks

Spec == Init /\ [][Next]_vars

\* ---- properties ----

\* what the claims mean by a child carrying an identifier
CarriedIds(blocks) == { blocks[i].id : i \in 1..Len(blocks) } \ {NoId}

CountOf(id, blocks) == Cardinality({ i \in 1..Len(blocks) : blocks[i].id = id })

RECURSIVE IdsInOrder(_)
IdsInOrder(blocks) ==
    IF blocks = << >> THEN << >>
    ELSE IF Head(blocks).id # NoId
         THEN << Head(blocks).id >> \o IdsInOrder(Tail(blocks))
         ELSE IdsInOrder(Tail(blocks))

RECURSIVE MissingPages(_, _)
MissingPages(ids, blocks) ==
    IF ids = << >> THEN << >>
    ELSE IF Head(ids) \notin CarriedIds(blocks)
         THEN << Head(ids) >> \o MissingPages(Tail(ids), blocks)
         ELSE MissingPages(Tail(ids), blocks)

\* C1: whenever reconciliation has run, its four results are: the count of
\* children per carried identifier, the carried identifiers in child order,
\* the identifiers carried more than once, and the page identifiers no child
\* carries; children without identifier contribute nothing.
C1_ReconciliationResults ==
    lastStep = "ItemsChecker" =>
        LET r == ItemsCheckerBase(innerBlocks)
            c == CarriedIds(innerBlocks)
        IN /\ DOMAIN r.items = c
           /\ \A id \in c : r.items[id] = CountOf(id, innerBlocks)
           /\ r.ids = IdsInOrder(innerBlocks)
           /\ Elems(r.repeated) = { id \in c : CountOf(id, innerBlocks) > 1 }
           /\ Unadded(pages, innerBlocks) =
                  MissingPages(PagesIdList(pages), innerBlocks)

\* the example of C1, children [1,2,2,3] and pages [1,2,3,4]
C1_Example ==
    LET blocks == << [id |-> 1], [id |-> 2], [id |-> 2], [id |-> 3] >>
        p      == [defined |-> TRUE, list |-> << 1, 2, 3, 4 >>]
    IN /\ ItemsCheckerBase(blocks).repeated = << 2 >>
       /\ Unadded(p, blocks) = << 4 >>

C3_CreateEmptyOneChild ==
    (lastEvent = "CreateEmpty" /\ Quiescent) => innerBlocks = << [id |-> NoId] >>

C3_Witness ==
    /\ lastEvent = "CreateEmpty"
    /\ Quiescent
    /\ populateFromExistingPages
    /\ lastStep = "ItemsChecker"

\* C4: while the page list is absent or empty, "create from all top pages"
\* is disabled, reconciliation finds nothing unadded, and no staged list is
\* committed to the children.
C4_NoPagesDisabled ==
    (~ pages.defined \/ Len(pages.list) = 0) =>
        /\ createDisabled
        /\ Unadded(pages, innerBlocks) = << >>
        /\ lastStep \notin {"CreateFromAllTopPages", "Commit"}

C4_Witness ==
    /\ pages.defined
    /\ Len(pages.list) = 0
    /\ view = "placeholder"
    /\ pageNavigationItems # << >>
    /\ lastStep = "ItemsChecker"

\* C5: the children are replaced by the component only with the staged list
\* while the user has opted in, or with one blank link on "create empty";
\* the opt-in is set only by "create from all top pages", and neither the
\* reconciliation nor a page-list change touches the children.
C5_StagedUntilOptIn ==
    [][ /\ (lastStep' = "Commit" =>
               populateFromExistingPages /\ innerBlocks' = pageNavigationItems)
        /\ (lastStep' = "CreateEmpty" => innerBlocks' = << [id |-> NoId] >>)
        /\ (lastStep' \in {"ItemsChecker", "NoCommit", "QueryPages",
                           "CreateFromAllTopPages"} => innerBlocks' = innerBlocks)
        /\ ((populateFromExistingPages' /\ ~ populateFromExistingPages) =>
               lastStep' = "CreateFromAllTopPages") ]_vars

C5_Witness ==
    /\ Quiescent
    /\ ~ populateFromExistingPages
    /\ lastStep = "NoCommit"
    /\ pageNavigationItems # << >>
    /\ pageNavigationItems # innerBlocks
    /\ innerBlocks # << >>

\* C6: the children are replaced with the staged list only in answer to the
\* choice "create from all top pages" itself, not after a later change of
\* the page list or of the children.
C6_OneShot ==
    lastStep = "Commit" => lastEvent = "CreateFromAllTopPages"

Occurrences(x, s) == Cardinality({ i \in 1..Len(s) : s[i] = x })

SameMultiset(a, b) ==
    \A x \in Elems(a) \cup Elems(b) : Occurrences(x, a) = Occurrences(x, b)

\* C7: a reconciliation run that finds nothing unadded leaves the staged list
\* alone, and it writes the items attribute exactly when the persisted
\* unadded list differs, as a multiset, from the computed (empty) one.
C7_EmptyUnadded ==
    [][ (lastStep' = "ItemsChecker" /\ Unadded(pages, innerBlocks) = << >>) =>
            /\ pageNavigationItems' = pageNavigationItems
            /\ wrote' = ~ SameMultiset(items.unadded, Unadded(pages, innerBlocks))
            /\ (wrote' => items' = ItemsCheckerObject(pages, innerBlocks))
            /\ (~ wrote' => items' = items) ]_vars

C7_Witness ==
    /\ lastStep = "ItemsChecker"
    /\ Unadded(pages, innerBlocks) = << >>
    /\ ~ wrote
    /\ items.ids # ItemsCheckerBase(innerBlocks).ids
    /\ pageNavigationItems # << >>

C9_CommitPrepends ==
    [][ lastStep' = "Commit" =>
            innerBlocks' =
                [i \in 1..Len(MissingPages(PagesIdList(pages), innerBlocks)) |->
                    [id |-> MissingPages(PagesIdList(pages), innerBlocks)[i]]]
                \o innerBlocks ]_vars

\* C10: the reconciliation run that follows a commit finds nothing more to
\* add, so the effect chain stops there.
C10_Quiesces ==
    [][ (lastStep = "Commit" /\ lastStep' = "ItemsChecker") => Quiescent' ]_vars

====
